---- MODULE Spec2Model ----
(***************************************************************************)
(* Model of auto_refresh.py: the refresh-cycle engine (monitor_loop), the  *)
(* concurrent batch fetcher (get_all_stock_data), the quote parser         *)
(* (get_stock_realtime_data) and the per-row calculator                    *)
(* (display_stock_info).                                                   *)
(*                                                                         *)
(* Numbers.  Prices are integers (a price unit); the code's floats are     *)
(* abstracted to exact arithmetic.  A percentage is kept as the exact      *)
(* fraction [n, d] of the division the code performs, so that no rounding  *)
(* is invented.  A Python Optional number (dict.get) is a set with at most *)
(* one element; a stock_info of None is the record None.                   *)
(*                                                                         *)
(* Specifications.  Spec is the engine from the entry of monitor_loop, on  *)
(* lists of up to MaxList entries.  SpecMain starts in main, before the    *)
(* list file is read.  SpecPool is the engine on lists longer than the     *)
(* thread pool.  SpecCountdown is the engine under every integer           *)
(* --interval.  SpecFetch and SpecRow call get_stock_realtime_data and     *)
(* display_stock_info alone, on every input of the bounds.                 *)
(***************************************************************************)
EXTENDS Integers, Sequences, FiniteSets, TLC

\* ---------------------------------------------------------------- bounds
MaxPrice == 2
MaxQty == 1
MaxList == 2
MaxInterval == 1
MaxVolume == 1

\* ThreadPoolExecutor(max_workers=10)
max_workers == 10

Codes == {"600000", "000001"}
Prices == 0..MaxPrice
Quantities == 0..MaxQty
Volumes == 0..MaxVolume

None == [kind |-> "None"]

Max(a, b) == IF a >= b THEN a ELSE b
Min(a, b) == IF a <= b THEN a ELSE b

\* --------------------------------------------------- the quote service
\* What one HTTP exchange gives the parser: a failure (network error,
\* non-2xx status, payload without 'var hq_str_', empty data string, a
\* field that is no number) or the comma-separated fields, already read as
\* numbers: nfields = len(fields).
FailedResponse == [kind |-> "error"]

FieldsResponse(n, price, pre_close, high, low, volume) ==
    [kind |-> "fields", nfields |-> n, price |-> price, pre_close |-> pre_close,
     high |-> high, low |-> low, volume |-> volume]

\* Responses the engine is driven with: a failure, a payload too short for
\* either path, the degraded payloads with price = pre_close (where the two
\* suspension rules differ), and every full payload whose day range is the
\* one spanned by price and pre_close.
Responses ==
    {FailedResponse}
    \cup {FieldsResponse(3, 0, 0, 0, 0, 0)}
    \cup {FieldsResponse(4, p, p, 0, 0, 0) : p \in Prices}
    \cup {FieldsResponse(32, r[1], r[2], Max(r[1], r[2]), Min(r[1], r[2]), r[3]) :
            r \in Prices \X Prices \X Volumes}

\* (variant: a day without volume is read as a suspension whatever the price)
FullSuspended_volumeOnly(price, pre_close, high, low, volume) ==
    \/ (price = 0 /\ pre_close # 0)
    \/ volume = 0

\* (variant: a price of 0 is not read as a suspension)
FullSuspended_noZeroRule(price, pre_close, high, low, volume) ==
    \/ (price = pre_close /\ volume = 0 /\ high = low /\ high = pre_close)
    \/ (volume = 0 /\ price = pre_close)

\* is_suspended of the full path
FullSuspended(price, pre_close, high, low, volume) ==
    \/ (price = pre_close /\ volume = 0 /\ high = low /\ high = pre_close)
    \/ (price = 0 /\ pre_close # 0)
    \/ (volume = 0 /\ price = pre_close)

\* (variant: the reduced path keeps the zero-price rule only)
DegradedSuspended_zeroOnly(price, pre_close) == price = 0 /\ pre_close # 0

\* is_suspended of the reduced (fewer than 32 fields) path
DegradedSuspended(price, pre_close) ==
    \/ (price = pre_close /\ price = 0 /\ pre_close # 0)
    \/ (price # 0 /\ price = pre_close)
    \/ (price = 0 /\ pre_close # 0)

get_stock_realtime_data(stock_code, resp) ==
    IF resp.kind = "error" THEN None
    ELSE IF resp.nfields >= 32 THEN
        [kind |-> "full", code |-> stock_code,
         pre_close |-> resp.pre_close, price |-> resp.price,
         high |-> resp.high, low |-> resp.low,
         is_suspended |-> FullSuspended(resp.price, resp.pre_close, resp.high,
                                        resp.low, resp.volume)]
    ELSE IF resp.nfields >= 4 THEN
        [kind |-> "degraded", code |-> stock_code,
         price |-> resp.price, pre_close |-> resp.pre_close,
         is_suspended |-> DegradedSuspended(resp.price, resp.pre_close)]
    ELSE None

\* stock_info.get(key, 0) for the two keys the reduced record lacks
InfoHigh(stock_info) == IF stock_info.kind = "full" THEN stock_info.high ELSE 0
InfoLow(stock_info) == IF stock_info.kind = "full" THEN stock_info.low ELSE 0

\* ------------------------------------------------- display_stock_info
\* (variant: the raw price is shown for a suspended quote too)
DisplayPrice_raw(stock_info) == stock_info.price

\* The effective price of a quote: pre_close when suspended.
DisplayPrice(stock_info) ==
    IF stock_info.is_suspended THEN stock_info.pre_close ELSE stock_info.price

\* (variant: a first display is compared with 0)
Trend_first(display_price, last_price) ==
    LET lp == IF last_price = {} THEN 0 ELSE CHOOSE x \in last_price : TRUE
    IN  IF display_price > lp THEN "up"
        ELSE IF display_price < lp THEN "down"
        ELSE "flat"

Trend(display_price, last_price) ==
    IF last_price = {} THEN "flat"
    ELSE LET lp == CHOOSE x \in last_price : TRUE
         IN  IF display_price > lp THEN "up"
             ELSE IF display_price < lp THEN "down"
             ELSE "flat"

\* The division of line 226 is made before the suspension test: a pre_close
\* of 0 raises ZeroDivisionError, for a suspended quote too.
DisplayRaises(stock_info) == stock_info.pre_close = 0

\* The printed row and the returned (profit_amount, display_price, cost),
\* for a stock_info that does not raise.
DisplayRecord(stock_info, holding_quantity, last_price) ==
    LET change0 == stock_info.price - stock_info.pre_close
        pct0 == [n |-> change0 * 100, d |-> stock_info.pre_close]
        display_price == DisplayPrice(stock_info)
        change == IF stock_info.is_suspended THEN 0 ELSE change0
        change_pct == IF stock_info.is_suspended THEN [n |-> 0, d |-> 1] ELSE pct0
        profit_amount == (display_price - stock_info.pre_close) * holding_quantity
    IN  [kind |-> "data",
         code |-> stock_info.code,
         quantity |-> holding_quantity,
         trend |-> Trend(display_price, last_price),
         high |-> InfoHigh(stock_info),
         low |-> InfoLow(stock_info),
         display_price |-> display_price,
         change |-> change,
         change_pct |-> change_pct,
         profit_amount |-> profit_amount,
         cost |-> stock_info.pre_close * holding_quantity]

\* (variant: the profit is taken from the raw price, as the sort key is)
display_stock_info_rawprofit(stock_info, holding_quantity, last_price) ==
    [DisplayRecord(stock_info, holding_quantity, last_price) EXCEPT
        !.profit_amount = (stock_info.price - stock_info.pre_close) * holding_quantity]

display_stock_info(stock_info, holding_quantity, last_price) ==
    DisplayRecord(stock_info, holding_quantity, last_price)

\* The row printed for an entry without data
PlaceholderRow(stock_item, holding_quantity) ==
    [kind |-> "placeholder", code |-> stock_item.code, quantity |-> holding_quantity]

\* --------------------------------------------------------- monitor_loop
\* list.sort(key=profit_amount, reverse=True): stable, descending.
RECURSIVE InsertByProfit(_, _)
InsertByProfit(sorted, x) ==
    IF sorted = <<>> THEN <<x>>
    ELSE IF Head(sorted).profit_amount >= x.profit_amount
         THEN <<Head(sorted)>> \o InsertByProfit(Tail(sorted), x)
         ELSE <<x>> \o sorted

RECURSIVE SortByProfit(_)
SortByProfit(s) ==
    IF s = <<>> THEN <<>>
    ELSE InsertByProfit(SortByProfit(SubSeq(s, 1, Len(s) - 1)), s[Len(s)])

\* The entry appended to stock_profits for one list item (lines 401-424)
ProfitEntry(stock_item, stock_data_of_code) ==
    LET stock_info == stock_data_of_code.info
        holding_quantity == stock_data_of_code.quantity
    IN  [stock_item |-> stock_item,
         stock_info |-> stock_info,
         holding_quantity |-> holding_quantity,
         profit_amount |-> IF stock_info # None
                           THEN (stock_info.price - stock_info.pre_close) * holding_quantity
                           ELSE 0]

\* (variant: the price is stored without the `> 0` test)
UpdatedPrices_unguarded(lp, stock_code, stock_info) ==
    IF stock_info # None
    THEN [c \in DOMAIN lp \cup {stock_code} |->
            IF c = stock_code THEN stock_info.price ELSE lp[c]]
    ELSE lp

\* last_prices after the update of lines 407-408 for one code
UpdatedPrices(lp, stock_code, stock_info) ==
    IF stock_info # None /\ stock_info.price > 0
    THEN [c \in DOMAIN lp \cup {stock_code} |->
            IF c = stock_code THEN stock_info.price ELSE lp[c]]
    ELSE lp

\* dict.get(code)
DictGet(lp, stock_code) == IF stock_code \in DOMAIN lp THEN {lp[stock_code]} ELSE {}

\* (variant: the trend reads the live dict at display time)
TrendLastPrice_live(snapshot, lp, stock_code) == DictGet(lp, stock_code)

\* last_prices_for_display[code]: the price the trend is compared with
TrendLastPrice(snapshot, lp, stock_code) == snapshot[stock_code]

\* (variant: only a fetch that gave data is stored)
RecordResult_skipNone(sd, stock_item, stock_info) ==
    IF stock_info = None THEN sd
    ELSE [c \in DOMAIN sd \cup {stock_item.code} |->
            IF c = stock_item.code
            THEN [info |-> stock_info, quantity |-> stock_item.quantity]
            ELSE sd[c]]

\* stock_data after `stock_data[stock_code] = {'info': ..., 'quantity': ...}`
RecordResult(sd, stock_item, stock_info) ==
    [c \in DOMAIN sd \cup {stock_item.code} |->
        IF c = stock_item.code
        THEN [info |-> stock_info, quantity |-> stock_item.quantity]
        ELSE sd[c]]

\* (variant: the batch returns as soon as one fetch has been collected)
BatchComplete_first(fs) == \E i \in DOMAIN fs : fs[i].state = "collected"

\* as_completed is exhausted and the with block has joined the pool
BatchComplete(fs) == \A i \in DOMAIN fs : fs[i].state = "collected"

\* (variant: the rate is left a ratio, not a percentage)
OverallReturnRate_ratio(profit, cost) ==
    IF cost # 0 THEN [n |-> profit, d |-> cost] ELSE [n |-> 0, d |-> 1]

OverallReturnRate(profit, cost) ==
    IF cost # 0 THEN [n |-> profit * 100, d |-> cost] ELSE [n |-> 0, d |-> 1]

VARIABLES
    stock_list,               \* the entries read at startup
    interval,                 \* --interval
    sort_by_profit,           \* --sort-by-profit
    pc,                       \* where the control thread is
    last_prices,              \* the global dict: code -> last valid price
    futures,                  \* one future per submitted fetch
    stock_data,               \* the dict get_all_stock_data builds and returns
    last_prices_for_display,  \* the snapshot taken before the update loop
    stock_profits,            \* the entries to render, in render order
    idx,                      \* position of the running for loop
    rows,                     \* the table rows printed in this cycle
    total_profit,
    total_cost,
    overall_return_rate,
    remaining_time,
    countdown_line,           \* the seconds the countdown line on the screen shows
    messages,                 \* the diagnostics and status lines printed so far
    exit_code,                \* the exit status, once the process has ended
    call,                     \* the arguments of a function that is being called
    ret                       \* what that function returned

vars == <<stock_list, interval, sort_by_profit, pc, last_prices, futures, stock_data,
          last_prices_for_display, stock_profits, idx, rows, total_profit, total_cost,
          overall_return_rate, remaining_time, countdown_line, messages, exit_code,
          call, ret>>

config == <<stock_list, interval, sort_by_profit>>
callret == <<call, ret>>
outcome == <<messages, exit_code>>

StockItems == [code : Codes, quantity : Quantities]
StockLists == UNION {[1..n -> StockItems] : n \in 1..MaxList}

EmptyDict == [c \in {} |-> 0]
NoFutures == [i \in {} |-> 0]
ZeroRate == [n |-> 0, d |-> 1]
NoCall == [fn |-> "none"]

\* Every engine variable but pc, call and ret at its empty value.
Blank ==
    /\ last_prices = EmptyDict
    /\ futures = NoFutures
    /\ stock_data = EmptyDict
    /\ last_prices_for_display = EmptyDict
    /\ stock_profits = <<>>
    /\ idx = 0
    /\ rows = <<>>
    /\ total_profit = 0
    /\ total_cost = 0
    /\ overall_return_rate = ZeroRate
    /\ remaining_time = 0
    /\ countdown_line = {}
    /\ messages = <<>>
    /\ exit_code = {}

engine == <<last_prices, futures, stock_data, last_prices_for_display, stock_profits,
            idx, rows, total_profit, total_cost, overall_return_rate, remaining_time,
            countdown_line>>

\* What monitor_loop starts from: nothing fetched, nothing on the screen.
LoopEntry ==
    /\ pc = "loop"
    /\ Blank
    /\ call = NoCall
    /\ ret = NoCall

Init ==
    /\ stock_list \in StockLists
    /\ interval \in 1..MaxInterval
    /\ sort_by_profit \in BOOLEAN
    /\ LoopEntry

Running == {i \in DOMAIN futures : futures[i].state = "running"}
Unfinished == {i \in DOMAIN futures : futures[i].state \in {"queued", "running"}}

\* Top of `while True`: clear the screen, print the header, enter
\* get_all_stock_data and submit one fetch per list entry.
BeginCycle ==
    /\ pc = "loop"
    /\ pc' = "fetching"
    /\ futures' = [i \in 1..Len(stock_list) |->
                     [state |-> "queued", result |-> None, attempts |-> 0]]
    /\ stock_data' = EmptyDict
    /\ rows' = <<>>
    /\ countdown_line' = {}
    /\ stock_profits' = <<>>
    /\ last_prices_for_display' = EmptyDict
    /\ idx' = 0
    /\ total_profit' = 0
    /\ total_cost' = 0
    /\ overall_return_rate' = ZeroRate
    /\ UNCHANGED <<config, callret, outcome, last_prices, remaining_time>>

\* (variant: one thread per submitted fetch)
PoolHasIdleThread_unbounded(fs) == TRUE

\* The pool has max_workers threads: one more fetch can start while fewer
\* than that are running.
PoolHasIdleThread(fs) ==
    Cardinality({i \in DOMAIN fs : fs[i].state = "running"}) < max_workers

\* A pool thread takes the next fetch from the executor's work queue, which
\* hands the work items out in the order they were submitted.
WorkerStart(i) ==
    /\ pc \in {"fetching", "draining"}
    /\ i \in DOMAIN futures
    /\ futures[i].state = "queued"
    /\ \A j \in 1..(i - 1) : futures[j].state # "queued"
    /\ PoolHasIdleThread(futures)
    /\ futures' = [futures EXCEPT ![i].state = "running", ![i].attempts = @ + 1]
    /\ UNCHANGED <<config, callret, outcome, pc, last_prices, stock_data,
                   last_prices_for_display, stock_profits, idx, rows, total_profit,
                   total_cost, overall_return_rate, remaining_time, countdown_line>>

\* (variant: the worker stores the price it has fetched itself)
WorkerFinish_writes(i, resp) ==
    /\ pc \in {"fetching", "draining"}
    /\ i \in DOMAIN futures
    /\ futures[i].state = "running"
    /\ futures' = [futures EXCEPT
                     ![i].state = "done",
                     ![i].result = get_stock_realtime_data(stock_list[i].code, resp)]
    /\ last_prices' = UpdatedPrices(last_prices, stock_list[i].code,
                                    get_stock_realtime_data(stock_list[i].code, resp))
    /\ UNCHANGED <<config, callret, outcome, pc, stock_data,
                   last_prices_for_display, stock_profits, idx, rows, total_profit,
                   total_cost, overall_return_rate, remaining_time, countdown_line>>

\* The fetch returns: get_stock_realtime_data catches every error itself.
WorkerFinish(i, resp) ==
    /\ pc \in {"fetching", "draining"}
    /\ i \in DOMAIN futures
    /\ futures[i].state = "running"
    /\ futures' = [futures EXCEPT
                     ![i].state = "done",
                     ![i].result = get_stock_realtime_data(stock_list[i].code, resp)]
    /\ UNCHANGED <<config, callret, outcome, pc, last_prices, stock_data,
                   last_prices_for_display, stock_profits, idx, rows, total_profit,
                   total_cost, overall_return_rate, remaining_time, countdown_line>>

\* One iteration of `for future in as_completed(...)`.
Collect(i) ==
    /\ pc = "fetching"
    /\ i \in DOMAIN futures
    /\ futures[i].state = "done"
    /\ stock_data' = RecordResult(stock_data, stock_list[i], futures[i].result)
    /\ futures' = [futures EXCEPT ![i].state = "collected"]
    /\ UNCHANGED <<config, callret, outcome, pc, last_prices, last_prices_for_display,
                   stock_profits, idx, rows, total_profit, total_cost,
                   overall_return_rate, remaining_time, countdown_line>>

\* get_all_stock_data returns (the with block has joined the pool) and the
\* engine collects the previous prices of every list entry.
Snapshot ==
    /\ pc = "fetching"
    /\ BatchComplete(futures)
    /\ last_prices_for_display' =
         [c \in {stock_list[i].code : i \in 1..Len(stock_list)} |-> DictGet(last_prices, c)]
    /\ pc' = "update"
    /\ idx' = 1
    /\ UNCHANGED <<config, callret, outcome, last_prices, futures, stock_data,
                   stock_profits, rows, total_profit, total_cost, overall_return_rate,
                   remaining_time, countdown_line>>

\* (variant: the entries are sorted whatever the flag says)
RenderOrder_sorted(flag, entries) == SortByProfit(entries)

\* `if sort_by_profit: stock_profits.sort(...)`
RenderOrder(flag, entries) == IF flag THEN SortByProfit(entries) ELSE entries

\* One iteration of the second `for stock_item in stock_list`; after the
\* last one the optional sort.
UpdatePrice ==
    /\ pc = "update"
    /\ idx <= Len(stock_list)
    /\ LET stock_item == stock_list[idx]
           sd == stock_data[stock_item.code]
           appended == Append(stock_profits, ProfitEntry(stock_item, sd))
       IN  /\ last_prices' = UpdatedPrices(last_prices, stock_item.code, sd.info)
           /\ IF idx = Len(stock_list)
              THEN /\ stock_profits' = RenderOrder(sort_by_profit, appended)
                   /\ pc' = "render"
                   /\ idx' = 1
              ELSE /\ stock_profits' = appended
                   /\ pc' = pc
                   /\ idx' = idx + 1
    /\ UNCHANGED <<config, callret, outcome, futures, stock_data,
                   last_prices_for_display, rows, total_profit, total_cost,
                   overall_return_rate, remaining_time, countdown_line>>

\* One iteration of `for stock_profit in stock_profits`.  An exception of
\* display_stock_info is caught nowhere: the traceback is printed and the
\* process ends with status 1.
RenderRow ==
    /\ pc = "render"
    /\ idx <= Len(stock_profits)
    /\ LET sp == stock_profits[idx]
           last_price == TrendLastPrice(last_prices_for_display, last_prices,
                                        sp.stock_item.code)
       IN  IF sp.stock_info # None
           THEN IF DisplayRaises(sp.stock_info)
                THEN /\ pc' = "crashed"
                     /\ messages' = Append(messages, "Traceback")
                     /\ exit_code' = {1}
                     /\ UNCHANGED <<rows, total_profit, total_cost, idx>>
                ELSE LET row == display_stock_info(sp.stock_info, sp.holding_quantity,
                                                   last_price)
                     IN  /\ rows' = Append(rows, row)
                         /\ total_profit' = total_profit + row.profit_amount
                         /\ total_cost' = total_cost + row.cost
                         /\ idx' = idx + 1
                         /\ UNCHANGED <<pc, outcome>>
           ELSE /\ rows' = Append(rows, PlaceholderRow(sp.stock_item, sp.holding_quantity))
                /\ idx' = idx + 1
                /\ UNCHANGED <<pc, outcome, total_profit, total_cost>>
    /\ UNCHANGED <<config, callret, last_prices, futures, stock_data,
                   last_prices_for_display, stock_profits, overall_return_rate,
                   remaining_time, countdown_line>>

\* (variant: the countdown starts one second short)
CountdownStart_short(seconds) == seconds - 1

\* `remaining_time = interval`
CountdownStart(seconds) == seconds

\* The summary line; then the countdown starts: with `remaining_time > 0`
\* the first countdown line is printed and the thread sleeps in
\* time.sleep(1), otherwise the while loop is skipped.
Summary ==
    /\ pc = "render"
    /\ idx > Len(stock_profits)
    /\ overall_return_rate' = OverallReturnRate(total_profit, total_cost)
    /\ remaining_time' = CountdownStart(interval)
    /\ IF remaining_time' > 0
       THEN /\ pc' = "countdown"
            /\ countdown_line' = {remaining_time'}
       ELSE /\ pc' = "loop"
            /\ countdown_line' = countdown_line
    /\ UNCHANGED <<config, callret, outcome, last_prices, futures, stock_data,
                   last_prices_for_display, stock_profits, idx, rows, total_profit,
                   total_cost>>

\* time.sleep(1) returns: decrement; with time left the countdown line is
\* erased, printed again and the thread sleeps again, otherwise the while
\* loop ends with the last countdown line still on the screen.
Tick ==
    /\ pc = "countdown"
    /\ remaining_time > 0
    /\ remaining_time' = remaining_time - 1
    /\ IF remaining_time' > 0
       THEN /\ pc' = "countdown"
            /\ countdown_line' = {remaining_time'}
       ELSE /\ pc' = "loop"
            /\ countdown_line' = countdown_line
    /\ UNCHANGED <<config, callret, outcome, last_prices, futures, stock_data,
                   last_prices_for_display, stock_profits, idx, rows, total_profit,
                   total_cost, overall_return_rate>>

\* monitor_loop has returned: its frame, and with it every local, is gone.
\* The global last_prices and what is on the screen stay.
FrameDropped ==
    /\ futures' = NoFutures
    /\ stock_data' = EmptyDict
    /\ last_prices_for_display' = EmptyDict
    /\ stock_profits' = <<>>
    /\ idx' = 0
    /\ total_profit' = 0
    /\ total_cost' = 0
    /\ overall_return_rate' = ZeroRate
    /\ remaining_time' = 0
    /\ UNCHANGED <<config, callret, last_prices, rows, countdown_line>>

\* `except KeyboardInterrupt: print("\nMonitoring stopped")`, then
\* monitor_loop and main return: the process ends with status 0.
Stopped ==
    /\ pc' = "stopped"
    /\ messages' = Append(messages, "Monitoring stopped")
    /\ exit_code' = {0}
    /\ FrameDropped

\* (variant: the handler sits inside the while loop, which then goes on)
Interrupt_resumes ==
    /\ pc \in {"loop", "fetching", "update", "render", "countdown"}
    /\ IF pc = "fetching" /\ Unfinished # {}
       THEN /\ pc' = "draining"
            /\ UNCHANGED <<config, callret, outcome, last_prices, futures, stock_data,
                           last_prices_for_display, stock_profits, idx, rows,
                           total_profit, total_cost, overall_return_rate,
                           remaining_time, countdown_line>>
       ELSE /\ pc' = "loop"
            /\ messages' = Append(messages, "Monitoring stopped")
            /\ exit_code' = exit_code
            /\ FrameDropped

\* KeyboardInterrupt in the control thread, wherever it is in the loop.
\* Raised inside get_all_stock_data, it first leaves the with block, which
\* joins the pool (shutdown(wait=True)): the fetches still run to their end.
Interrupt ==
    /\ pc \in {"loop", "fetching", "update", "render", "countdown"}
    /\ IF pc = "fetching" /\ Unfinished # {}
       THEN /\ pc' = "draining"
            /\ UNCHANGED <<config, callret, outcome, last_prices, futures, stock_data,
                           last_prices_for_display, stock_profits, idx, rows,
                           total_profit, total_cost, overall_return_rate,
                           remaining_time, countdown_line>>
       ELSE Stopped

\* The pool is joined; the interrupt reaches `except KeyboardInterrupt`.
Drained ==
    /\ pc = "draining"
    /\ Unfinished = {}
    /\ Stopped

Next ==
    \/ BeginCycle
    \/ \E i \in 1..MaxList + 1 : WorkerStart(i)
    \/ \E i \in 1..MaxList + 1, resp \in Responses : WorkerFinish(i, resp)
    \/ \E i \in 1..MaxList + 1 : Collect(i)
    \/ Snapshot
    \/ UpdatePrice
    \/ RenderRow
    \/ Summary
    \/ Tick
    \/ Interrupt
    \/ Drained

Spec == Init /\ [][Next]_vars

\* ------------------------------------- get_stock_realtime_data, called alone
\* len(fields) of the payloads the parser is given: too short for either
\* path, the two ends of the reduced path, the full path.
FieldCounts == {1, 3, 4, 31, 32, 33}

\* Every payload over the price and volume ranges: the five numbers vary
\* independently.  An empty price or pre_close field of a short payload is
\* read as 0.
AllResponses ==
    {FailedResponse}
    \cup {FieldsResponse(n, r[1], r[2], r[3], r[4], r[5]) :
            n \in FieldCounts, r \in Prices \X Prices \X Prices \X Prices \X Volumes}

InitFetch ==
    /\ stock_list = <<>>
    /\ interval = 1
    /\ sort_by_profit = FALSE
    /\ Blank
    /\ pc = "called"
    /\ call \in {[fn |-> "get_stock_realtime_data", stock_code |-> c, resp |-> r] :
                   c \in Codes, r \in AllResponses}
    /\ ret = NoCall

Return_get_stock_realtime_data ==
    /\ pc = "called"
    /\ call.fn = "get_stock_realtime_data"
    /\ ret' = get_stock_realtime_data(call.stock_code, call.resp)
    /\ pc' = "returned"
    /\ UNCHANGED <<config, engine, outcome, call>>

NextFetch == Return_get_stock_realtime_data

SpecFetch == InitFetch /\ [][NextFetch]_vars

\* ------------------------------------------------ main and read_stock_list
MaxLines == 2

\* The second word of an entry line: missing, no integer, or an integer.
QuantityTokens ==
    {[kind |-> "absent"], [kind |-> "text"]}
    \cup {[kind |-> "int", value |-> n] : n \in Quantities}

\* A line of the list file after strip(): empty, a `#` comment, or an entry
\* whose first word is a code, with or without a `.SZ`/`.SH` suffix.
Lines ==
    {[kind |-> "blank"], [kind |-> "comment"]}
    \cup {[kind |-> "entry", code |-> c, suffix |-> s, quantity |-> t] :
            c \in Codes, s \in BOOLEAN, t \in QuantityTokens}

\* What open() finds at the path: no file, a file that cannot be read or
\* decoded, or lines of text.
ListFiles ==
    {[kind |-> "missing"], [kind |-> "unreadable"]}
    \cup {[kind |-> "text", lines |-> l] :
            l \in UNION {[1..n -> Lines] : n \in 0..MaxLines}}

\* `int(parts[1])`, 0 when there is no second word or it is no integer
ParseQuantity(t) == IF t.kind = "int" THEN t.value ELSE 0

\* The loop of lines 195-210: blank and comment lines are skipped, the
\* suffix of the code is cut off.
RECURSIVE ParseLines(_)
ParseLines(lines) ==
    IF lines = <<>> THEN <<>>
    ELSE LET line == Head(lines)
         IN  IF line.kind = "entry"
             THEN <<[code |-> line.code, quantity |-> ParseQuantity(line.quantity)]>>
                    \o ParseLines(Tail(lines))
             ELSE ParseLines(Tail(lines))

\* Any exception (no file, no permission, undecodable bytes) gives [].
read_stock_list(file) ==
    IF file.kind = "text" THEN ParseLines(file.lines) ELSE <<>>

\* The line read_stock_list prints when it catches an exception
ReadDiagnostics(file) == IF file.kind = "text" THEN <<>> ELSE <<"read error">>

\* (variant: main does not look at the list it has read)
ListIsEmpty_never(stocks) == FALSE

\* `if not stock_list`
ListIsEmpty(stocks) == stocks = <<>>

InitMain ==
    /\ stock_list = <<>>
    /\ interval \in 1..MaxInterval
    /\ sort_by_profit \in BOOLEAN
    /\ Blank
    /\ pc = "main"
    /\ call \in {[fn |-> "main", list |-> f] : f \in ListFiles}
    /\ ret = NoCall

\* main: read the list; without entries print the diagnostic and
\* sys.exit(1), otherwise enter monitor_loop.
Main ==
    /\ pc = "main"
    /\ call.fn = "main"
    /\ LET stocks == read_stock_list(call.list)
       IN  /\ stock_list' = stocks
           /\ IF ListIsEmpty(stocks)
              THEN /\ messages' = messages \o ReadDiagnostics(call.list)
                                    \o <<"Stock list not found or empty">>
                   /\ exit_code' = {1}
                   /\ pc' = "exit"
              ELSE /\ messages' = messages
                   /\ exit_code' = exit_code
                   /\ pc' = "loop"
    /\ call' = NoCall
    /\ UNCHANGED <<interval, sort_by_profit, engine, ret>>

NextMain ==
    \/ Main
    \/ Next

SpecMain == InitMain /\ [][NextMain]_vars

\* ------------------------------------------------- the columns of a row
\* A text is the sequence of the display widths of its characters: 1 for an
\* ASCII character, 2 for a double-width one.
MaxNameLen == 17

\* `name[:16]`
name_limit == 16

Text(n) == [i \in 1..n |-> 1]

RECURSIVE wcswidth(_)
wcswidth(text) == IF text = <<>> THEN 0 ELSE Head(text) + wcswidth(Tail(text))

\* Names of w double-width and n ASCII characters, either kind first
Names ==
    UNION {{[i \in 1..(w + n) |-> IF i <= w THEN 2 ELSE 1],
            [i \in 1..(w + n) |-> IF i <= n THEN 1 ELSE 2]} :
             w \in 0..MaxNameLen, n \in 0..MaxNameLen}
    \cap UNION {[1..k -> {1, 2}] : k \in 0..MaxNameLen}

\* text[:k]
Truncate(text, k) == SubSeq(text, 1, Min(k, Len(text)))

\* format_column_text(text, width, 'right'): spaces are added in front,
\* nothing is ever cut off
format_column_text(text, width) ==
    Text(Max(0, width - wcswidth(text))) \o text

RECURSIVE Digits(_)
Digits(n) == IF n < 10 THEN 1 ELSE 1 + Digits(n \div 10)

Abs(x) == IF x < 0 THEN -x ELSE x

\* str(n) of an integer
StrInt(n) == Text((IF n < 0 THEN 1 ELSE 0) + Digits(Abs(n)))

\* f"{x:.2f}" of a whole number of price units
Fixed2(x) == Text((IF x < 0 THEN 1 ELSE 0) + Digits(Abs(x)) + 3)

\* f"{x:>+w.2f}" of a whole number: the sign is always there, spaces fill
\* up to w characters
SignedFixed2(x, w) == Text(Max(w, 1 + Digits(Abs(x)) + 3))

\* |n/d| rounded to hundredths, in hundredths
Hundredths(f) == (2 * 100 * Abs(f.n) + Abs(f.d)) \div (2 * Abs(f.d))

\* f"{change_pct:>+8.2f}%"
PercentText(f) == Text(Max(8, 1 + Digits(Hundredths(f) \div 100) + 3) + 1)

\* The nine columns of the row display_stock_info prints (lines 266-296),
\* each with its padding, the colour sequences left out.
RowColumns(stock_info, row) ==
    LET change_pct_str == PercentText(row.change_pct)
        profit_str == SignedFixed2(row.profit_amount, 10)
    IN  [name |-> format_column_text(Truncate(stock_info.name, name_limit), 20),
         quantity |-> format_column_text(StrInt(row.quantity), 10),
         trend |-> Text(5) \o Text(1),
         high |-> format_column_text(Fixed2(row.high), 8),
         low |-> format_column_text(Fixed2(row.low), 8),
         price |-> format_column_text(Fixed2(row.display_price), 10),
         change_pct |-> Text(Max(0, 12 - wcswidth(change_pct_str))) \o change_pct_str,
         profit |-> Text(Max(0, 14 - wcswidth(profit_str))) \o profit_str,
         time |-> format_column_text(stock_info.time, 10)]

\* The quote records the parser can return, with a name and the time text
\* `HH:MM:SS`
NamedQuotes ==
    {[f \in DOMAIN q \cup {"name", "time"} |->
        IF f = "name" THEN n ELSE IF f = "time" THEN Text(8) ELSE q[f]] :
       q \in {get_stock_realtime_data(c, r) : c \in Codes, r \in Responses} \ {None},
       n \in Names}

InitRow ==
    /\ stock_list = <<>>
    /\ interval = 1
    /\ sort_by_profit = FALSE
    /\ Blank
    /\ pc = "called"
    /\ call \in {[fn |-> "display_stock_info", stock_info |-> q,
                  holding_quantity |-> h, last_price |-> {}] :
                   q \in NamedQuotes, h \in Quantities}
    /\ ret = NoCall

Return_display_stock_info ==
    /\ pc = "called"
    /\ call.fn = "display_stock_info"
    /\ ret' = IF DisplayRaises(call.stock_info)
              THEN [kind |-> "ZeroDivisionError"]
              ELSE LET row == display_stock_info(call.stock_info, call.holding_quantity,
                                                 call.last_price)
                   IN  [kind |-> "row", columns |-> RowColumns(call.stock_info, row)]
    /\ pc' = "returned"
    /\ UNCHANGED <<config, engine, outcome, call>>

NextRow == Return_display_stock_info

SpecRow == InitRow /\ [][NextRow]_vars

\* ------------------------------------------- lists longer than the pool
\* A list with one entry more than the pool has threads, and its prefixes
\* of one entry and of as many entries as there are threads.
LongList ==
    [i \in 1..(max_workers + 1) |->
        [code |-> IF i % 2 = 1 THEN "600000" ELSE "000001", quantity |-> 0]]

PoolLists == {SubSeq(LongList, 1, n) : n \in {1, max_workers, max_workers + 1}}

InitPool ==
    /\ stock_list \in PoolLists
    /\ interval = 1
    /\ sort_by_profit = FALSE
    /\ LoopEntry

\* The engine with every fetch failing: the quotes play no part in how the
\* pool hands out its threads.
NextPool ==
    \/ BeginCycle
    \/ \E i \in DOMAIN futures : WorkerStart(i)
    \/ \E i \in DOMAIN futures : WorkerFinish(i, FailedResponse)
    \/ \E i \in DOMAIN futures : Collect(i)
    \/ Snapshot
    \/ UpdatePrice
    \/ RenderRow
    \/ Summary
    \/ Tick
    \/ Interrupt
    \/ Drained

SpecPool == InitPool /\ [][NextPool]_vars

\* --------------------------------------------------- every --interval
\* argparse takes any integer for --interval (type=int): negative ones and
\* 0 as well as the seconds the loop is meant for.
Intervals == (0 - MaxInterval)..(MaxInterval + 1)

InitCountdown ==
    /\ stock_list \in {<<item>> : item \in StockItems}
    /\ interval \in Intervals
    /\ sort_by_profit = FALSE
    /\ LoopEntry

SpecCountdown == InitCountdown /\ [][Next]_vars

\* ------------------------------------------------------------ properties
ListCodes == {stock_list[i].code : i \in 1..Len(stock_list)}

\* The batch has returned and the cycle has not been left.
AfterBatch == pc \in {"update", "render", "countdown", "crashed"}

\* The update loop of the cycle has run to its end.
AfterUpdate == pc \in {"render", "countdown", "crashed"}

\* Every row of the cycle has been printed.
RenderComplete == \/ pc = "countdown"
                  \/ (pc = "render" /\ idx > Len(stock_profits))

\* The rows on the screen are those of stock_profits[1..Len(rows)].
RowsOfCycle == pc \in {"loop", "render", "countdown", "crashed"}

\* The effective price, written from the quote's fields.
EffectivePrice(q) == IF q.is_suspended THEN q.pre_close ELSE q.price

\* Every fetch made for code c in the cycle came back without data.
FetchFailed(c) ==
    \A i \in DOMAIN futures : stock_list[i].code = c => futures[i].result = None

\* Every fetch made for code c in the cycle came back with data.
FetchSucceeded(c) ==
    \A i \in DOMAIN futures : stock_list[i].code = c => futures[i].result # None

\* The profit a row shows: a placeholder row counts as 0.
ShownProfit(r) == IF r.kind = "data" THEN r.profit_amount ELSE 0

RECURSIVE SumOver(_, _, _)
SumOver(F(_), s, k) == IF k = 0 THEN 0 ELSE SumOver(F, s, k - 1) + F(s[k])

\* C1: the price a trend is compared with is the one last_prices held when
\* the cycle began: the snapshot copies last_prices without changing it, it
\* stays fixed for the rest of the cycle, last_prices is written only in the
\* update loop that follows the snapshot, and every data row's trend is the
\* comparison of its effective price with the snapshot.
C1_TrendAgainstPriorCycle ==
    [][ /\ (pc = "fetching" /\ pc' = "update") =>
             /\ last_prices' = last_prices
             /\ \A c \in ListCodes : last_prices_for_display'[c] = DictGet(last_prices, c)
        /\ (last_prices' # last_prices) => (pc = "update")
        /\ (pc \in {"update", "render", "countdown"} /\ pc' \notin {"fetching", "stopped"}) =>
             last_prices_for_display' = last_prices_for_display
        /\ (Len(rows') = Len(rows) + 1 /\ rows'[Len(rows')].kind = "data") =>
             LET r == rows'[Len(rows')]
                 prev == last_prices_for_display[r.code]
             IN  /\ prev = {} => r.trend = "flat"
                 /\ \A v \in prev :
                      r.trend = IF r.display_price > v THEN "up"
                                ELSE IF r.display_price < v THEN "down" ELSE "flat"
      ]_vars

\* A row whose trend shows a move although last_prices already holds the
\* price displayed in it.
C1_Witness ==
    /\ pc = "countdown"
    /\ \E k \in 1..Len(rows) :
         /\ rows[k].kind = "data"
         /\ rows[k].trend = "up"
         /\ DictGet(last_prices, rows[k].code) = {rows[k].display_price}
         /\ last_prices_for_display[rows[k].code] # {}

\* C2: once the update loop of a cycle is over, a code fetched with a price
\* > 0 maps to that price in last_prices, and every other code of the list
\* maps to what it mapped to before the cycle (or is still absent).
C2_LastPricesAfterUpdate ==
    AfterUpdate =>
        \A c \in ListCodes :
            LET q == stock_data[c].info
            IN  IF q # None /\ q.price > 0
                THEN DictGet(last_prices, c) = {q.price}
                ELSE DictGet(last_prices, c) = last_prices_for_display[c]

\* A cycle that kept an earlier price for a code quoted at 0, one that kept
\* it through a failed fetch, and one that replaced a price.
C2_Witness ==
    /\ pc = "countdown"
    /\ \E c \in ListCodes :
         /\ stock_data[c].info # None
         /\ stock_data[c].info.price = 0
         /\ last_prices_for_display[c] # {}
         /\ DictGet(last_prices, c) = last_prices_for_display[c]
    /\ \E c \in ListCodes :
         /\ stock_data[c].info # None
         /\ stock_data[c].info.price > 0
         /\ last_prices_for_display[c] # {}
         /\ last_prices_for_display[c] # {stock_data[c].info.price}

\* C3: the loop leaves Fetching / Rendering+Counting-down only through an
\* interrupt: it never ends in any other way, whatever the quotes are.
C3_EndsOnlyOnInterrupt == pc # "crashed"

\* C4: a code all of whose fetches failed in the cycle is recorded with no
\* data, its entries are printed as placeholder rows and add nothing to the
\* totals, every fetch of the batch was still made and collected, the codes
\* whose fetches gave data are recorded with it and get data rows, and a
\* cycle that ends in an exception ends at an entry that has data.
C4_FailureIsolated ==
    AfterBatch =>
        /\ \A i \in DOMAIN futures : futures[i].state = "collected"
        /\ \A c \in ListCodes :
             FetchFailed(c) => (c \in DOMAIN stock_data /\ stock_data[c].info = None)
        /\ \A c \in ListCodes :
             FetchSucceeded(c) => (c \in DOMAIN stock_data /\ stock_data[c].info # None)
        /\ \A k \in 1..Len(rows) :
             LET c == stock_profits[k].stock_item.code
             IN  /\ FetchFailed(c) => rows[k] = [kind |-> "placeholder", code |-> c,
                                                 quantity |-> stock_data[c].quantity]
                 /\ FetchSucceeded(c) => rows[k].kind = "data"
        /\ LET Profit(r) == IF r.kind = "placeholder" THEN 0 ELSE r.profit_amount
               Cost(r) == IF r.kind = "placeholder" THEN 0 ELSE r.cost
           IN  /\ total_profit = SumOver(Profit, rows, Len(rows))
               /\ total_cost = SumOver(Cost, rows, Len(rows))
        /\ RenderComplete => Len(rows) = Len(stock_list)
        /\ pc = "crashed" => ~FetchFailed(stock_profits[idx].stock_item.code)

\* A finished table with a placeholder row for a failed code beside a data
\* row that moved the totals.
C4_Witness ==
    /\ pc = "countdown"
    /\ \E k, j \in 1..Len(rows) :
         /\ FetchFailed(rows[k].code)
         /\ rows[k].kind = "placeholder"
         /\ rows[k].quantity > 0
         /\ rows[j].kind = "data"
         /\ rows[j].profit_amount # 0
         /\ total_profit = rows[j].profit_amount
         /\ total_cost = rows[j].cost

\* C5: when the engine works on a batch (snapshot taken, records computed,
\* rows printed, countdown), every submitted fetch has finished and been
\* collected, none is queued or running, and the mapping has an entry for
\* every code of the list.
C5_BatchIsBarrier ==
    AfterBatch =>
        /\ DOMAIN futures = 1..Len(stock_list)
        /\ \A i \in DOMAIN futures : futures[i].state = "collected"
        /\ Running = {}
        /\ Unfinished = {}
        /\ ListCodes \subseteq DOMAIN stock_data

\* The engine at work on a batch of two fetches.
C5_Witness ==
    /\ pc = "update"
    /\ Len(stock_list) = 2
    /\ Cardinality(DOMAIN stock_data) = 2
    /\ \A i \in DOMAIN futures : futures[i].state = "collected"

\* C6: with sort_by_profit the profits shown in the rows never increase
\* from one row to the next (a placeholder row counts as 0).
C6_RowsNonIncreasing ==
    sort_by_profit =>
        \A k \in 1..Len(rows) - 1 : ShownProfit(rows[k]) >= ShownProfit(rows[k + 1])

C8_ProfitAmount ==
    RowsOfCycle =>
        /\ \A k \in 1..Len(rows) :
             LET q == stock_profits[k].stock_info
                 n == stock_profits[k].holding_quantity
             IN  rows[k].kind = "data" =>
                     /\ rows[k].profit_amount = (EffectivePrice(q) - q.pre_close) * n
                     /\ n = 0 => rows[k].profit_amount = 0
        /\ total_profit = SumOver(ShownProfit, rows, Len(rows))

\* A table with a gaining row, a row of quantity 0 whose price moved, and a
\* suspended row whose raw price gives another product.
C8_Witness ==
    /\ pc = "countdown"
    /\ \E k \in 1..Len(rows) :
         /\ rows[k].kind = "data"
         /\ rows[k].profit_amount > 0
         /\ total_profit = rows[k].profit_amount
    /\ \E k \in 1..Len(rows) :
         /\ rows[k].kind = "data"
         /\ stock_profits[k].holding_quantity = 0
         /\ stock_profits[k].stock_info.price # stock_profits[k].stock_info.pre_close

\* C9: the trend of a data row is flat when the code had no previous price,
\* else up, down or flat as the effective price is above, below or equal to
\* the previous price.
C9_Trend ==
    RowsOfCycle =>
        \A k \in 1..Len(rows) :
            LET q == stock_profits[k].stock_info
                prev == last_prices_for_display[stock_profits[k].stock_item.code]
            IN  rows[k].kind = "data" =>
                    /\ prev = {} => rows[k].trend = "flat"
                    /\ \A v \in prev :
                         /\ EffectivePrice(q) > v => rows[k].trend = "up"
                         /\ EffectivePrice(q) < v => rows[k].trend = "down"
                         /\ EffectivePrice(q) = v => rows[k].trend = "flat"

\* A first display of a positive price, and a suspended quote that shows up
\* although its raw price is below the previous price.
C9_Witness ==
    /\ pc = "countdown"
    /\ \E k \in 1..Len(rows) :
         /\ rows[k].kind = "data"
         /\ last_prices_for_display[rows[k].code] = {}
         /\ rows[k].display_price > 0
         /\ rows[k].trend = "flat"
    /\ \E k \in 1..Len(rows) :
         /\ rows[k].kind = "data"
         /\ stock_profits[k].stock_info.is_suspended
         /\ rows[k].trend = "up"
         /\ \E v \in last_prices_for_display[rows[k].code] :
              stock_profits[k].stock_info.price < v

\* C10: when the summary is printed, total_profit and total_cost are the
\* sums of (effective price - pre_close) * quantity and pre_close * quantity
\* over the entries that have data, and the overall rate is
\* total_profit / total_cost * 100, or 0 when total_cost is 0.
C10_Summary ==
    pc = "countdown" =>
        LET Profit(e) == IF e.stock_info = None THEN 0
                         ELSE (EffectivePrice(e.stock_info) - e.stock_info.pre_close)
                                  * e.holding_quantity
            Cost(e) == IF e.stock_info = None THEN 0
                       ELSE e.stock_info.pre_close * e.holding_quantity
        IN  /\ total_profit = SumOver(Profit, stock_profits, Len(stock_profits))
            /\ total_cost = SumOver(Cost, stock_profits, Len(stock_profits))
            /\ overall_return_rate.d # 0
            /\ IF total_cost # 0
               THEN overall_return_rate.n * total_cost
                        = total_profit * 100 * overall_return_rate.d
               ELSE overall_return_rate.n = 0

\* The scenario of the specification at the model's scale: one entry gains
\* its whole cost (a rate of 100 %), the other has no data.
C10_Witness ==
    /\ pc = "countdown"
    /\ \E k, j \in 1..Len(rows) :
         /\ rows[k].kind = "placeholder"
         /\ rows[j].kind = "data"
         /\ rows[j].profit_amount > 0
    /\ total_cost > 0
    /\ overall_return_rate.n = 100 * overall_return_rate.d

\* get_stock_realtime_data has returned from a payload of n fields.
Parsed(lo, hi) ==
    /\ pc = "returned"
    /\ call.fn = "get_stock_realtime_data"
    /\ call.resp.kind = "fields"
    /\ call.resp.nfields >= lo
    /\ call.resp.nfields <= hi

\* C11: on the full parse path (32 fields or more) the record's suspended
\* flag is true exactly when (a) price = pre_close, volume = 0 and
\* high = low = pre_close, or (b) price = 0 and pre_close # 0, or
\* (c) volume = 0 and price = pre_close, whatever the five numbers are.
C11_FullPathSuspended ==
    Parsed(32, 33) =>
        LET q == call.resp
        IN  /\ ret # None
            /\ ret.kind = "full"
            /\ ret.is_suspended <=>
                 \/ (q.price = q.pre_close /\ q.volume = 0
                       /\ q.high = q.low /\ q.high = q.pre_close)
                 \/ (q.price = 0 /\ q.pre_close # 0)
                 \/ (q.volume = 0 /\ q.price = q.pre_close)

\* A traded quote with price 0 and a nonzero pre_close: suspended through
\* rule (b) alone.
C11_Witness ==
    /\ Parsed(32, 33)
    /\ call.resp.price = 0
    /\ call.resp.pre_close > 0
    /\ call.resp.volume > 0
    /\ ret.is_suspended

\* The places of the loop: the top of a cycle, the fetch phase, the update
\* loop, the rendering, the countdown sleep.
LoopPlaces == {"loop", "fetching", "update", "render", "countdown"}

\* C12: an interrupt is taken at every place of the loop; once it has
\* arrived no cycle is started, no row and no countdown line is printed and
\* last_prices is left alone; the engine ends in its terminal state with
\* exactly one status line, "Monitoring stopped", and exit code 0, and
\* nothing happens afterwards; out of the countdown sleep the interrupt
\* leads to the terminal state at once, without a further tick.
C12_InterruptEndsTheLoop ==
    [][ /\ (pc \in LoopPlaces => ENABLED Interrupt)
        /\ (pc \in {"draining", "stopped"} =>
              /\ pc' \in {"draining", "stopped"}
              /\ rows' = rows
              /\ countdown_line' = countdown_line
              /\ last_prices' = last_prices
              /\ stock_data' \in {stock_data, EmptyDict})
        /\ (pc = "stopped" => vars' = vars)
        /\ ((pc \in LoopPlaces /\ pc' \notin LoopPlaces /\ pc' # "crashed") =>
              pc' \in {"draining", "stopped"})
        /\ (pc = "draining" => messages' \in {messages, <<"Monitoring stopped">>})
        /\ ((messages' # messages /\ pc' # "crashed") => pc' = "stopped")
        /\ (pc' = "stopped" =>
              /\ messages' = <<"Monitoring stopped">>
              /\ exit_code' = {0})
        /\ ((pc = "countdown" /\ pc' \notin {"countdown", "loop"}) =>
              /\ pc' = "stopped"
              /\ countdown_line' = {remaining_time})
      ]_vars

\* Interrupted during the countdown sleep: the table and the countdown line
\* are on the screen, the status line is printed, the exit code is 0.
C12_Witness ==
    /\ pc = "stopped"
    /\ messages = <<"Monitoring stopped">>
    /\ exit_code = {0}
    /\ rows # <<>>
    /\ countdown_line # {}
    /\ last_prices # EmptyDict

\* The list file gives no entry: it is missing, it cannot be read, or it
\* holds blank and comment lines only.
NoEntries(file) ==
    \/ file.kind \in {"missing", "unreadable"}
    \/ \A i \in DOMAIN file.lines : file.lines[i].kind \in {"blank", "comment"}

\* C13: when the list file is missing, unreadable or without entries, main
\* prints the diagnostic "Stock list not found or empty" and the process
\* ends with exit code 1; no fetch has been submitted, no row printed, and
\* nothing happens afterwards: the refresh loop is never entered.
C13_NoListNoLoop ==
    [][ /\ ((pc = "main" /\ NoEntries(call.list)) =>
              /\ pc' = "exit"
              /\ exit_code' = {1}
              /\ messages' # <<>>
              /\ messages'[Len(messages')] = "Stock list not found or empty")
        /\ (pc' = "exit" =>
              /\ futures' = NoFutures
              /\ rows' = <<>>
              /\ countdown_line' = {}
              /\ last_prices' = EmptyDict)
        /\ (pc = "exit" => vars' = vars)
      ]_vars

\* A readable file without entries has been refused.
C13_Witness ==
    /\ pc = "exit"
    /\ exit_code = {1}
    /\ messages = <<"Stock list not found or empty">>
    /\ futures = NoFutures
    /\ rows = <<>>

\* The widths of the table's columns: those of the header of lines 367-375.
ContractWidths ==
    [name |-> 20, quantity |-> 10, trend |-> 6, high |-> 8, low |-> 8,
     price |-> 10, change_pct |-> 12, profit |-> 14, time |-> 10]

\* C14: every column of a printed data row, its colour sequences stripped,
\* is exactly as wide on the screen as the contract says (Name 20, Qty 10,
\* Trend 6, High 8, Low 8, Price 10, Change% 12, Profit 14, Time 10),
\* however many double-width characters the name holds.
C14_ColumnWidths ==
    (pc = "returned" /\ call.fn = "display_stock_info" /\ ret.kind = "row") =>
        \A c \in DOMAIN ContractWidths : wcswidth(ret.columns[c]) = ContractWidths[c]

\* C15: at every moment at most max_workers = 10 fetches are running,
\* whatever the length of the list; no entry's fetch is started more than
\* once in a cycle, and when the batch has returned every entry's fetch has
\* been started exactly once, failed or not.
C15_BoundedPoolFetchOnce ==
    /\ Cardinality(Running) <= max_workers
    /\ \A i \in DOMAIN futures :
          /\ futures[i].attempts <= 1
          /\ (futures[i].state # "queued" => futures[i].attempts = 1)
    /\ (AfterBatch =>
          /\ DOMAIN futures = 1..Len(stock_list)
          /\ \A i \in DOMAIN futures :
                futures[i].attempts = 1 /\ futures[i].result = None)

\* Eleven entries: ten fetches are running and the eleventh waits.
C15_Witness ==
    /\ pc = "fetching"
    /\ Len(stock_list) > max_workers
    /\ Cardinality(Running) = max_workers
    /\ \E i \in DOMAIN futures : futures[i].state = "queued"

\* What C16 says of the steps of the countdown: the counter starts at the
\* interval when the summary has been printed; a step out of the countdown
\* sleep that is no interrupt takes exactly 1 off the counter, submits and
\* collects no fetch, leaves last_prices and the rows of the table alone and
\* shows the new count on the countdown line; the countdown is left for the
\* next cycle with the counter at 0.
CountdownSteps ==
    /\ ((pc = "render" /\ pc' \in {"countdown", "loop"}) =>
          remaining_time' = interval)
    /\ ((pc = "countdown" /\ pc' # "stopped") =>
          /\ remaining_time' = remaining_time - 1
          /\ futures' = futures
          /\ stock_data' = stock_data
          /\ last_prices' = last_prices
          /\ rows' = rows
          /\ (pc' = "countdown" => countdown_line' = {remaining_time'}))
    /\ ((pc = "countdown" /\ pc' = "loop") => remaining_time' = 0)

\* C16 (as stated): the steps of the countdown are as above and the next
\* cycle's fetch starts only with the counter at 0, for every integer
\* interval.
C16_CountdownEveryInterval ==
    [][ /\ CountdownSteps
        /\ ((pc = "loop" /\ pc' = "fetching") => remaining_time = 0)
      ]_vars

\* C16 (amended): the steps of the countdown are as above; for every
\* interval >= 0 the next cycle's fetch starts only with the counter at 0;
\* with a negative interval the engine never sleeps in the countdown and
\* the next cycle's fetch starts with the counter still at the interval.
C16_CountdownNonNegative ==
    [][ /\ CountdownSteps
        /\ ((interval >= 0 /\ pc = "loop" /\ pc' = "fetching") => remaining_time = 0)
        /\ (interval < 0 =>
              /\ pc' # "countdown"
              /\ ((pc = "loop" /\ pc' = "fetching") => remaining_time \in {0, interval})
              /\ ((pc = "render" /\ pc' \notin {"render", "stopped", "crashed"}) =>
                    pc' = "loop"))
      ]_vars

\* A countdown of two ticks has run down and the fetch of the next cycle
\* has started.
C16_Witness ==
    /\ pc = "fetching"
    /\ interval = 2
    /\ remaining_time = 0
    /\ countdown_line = {}
    /\ last_prices # EmptyDict

C18_SingleWriter ==
    [][ (last_prices' # last_prices) =>
          /\ pc = "update"
          /\ BatchComplete(futures)
          /\ Running = {}
          /\ futures' = futures
          /\ stock_data' = stock_data
          /\ rows' = rows
          /\ DOMAIN last_prices' = DOMAIN last_prices \cup {stock_list[idx].code}
          /\ \A c \in DOMAIN last_prices :
                c # stock_list[idx].code => last_prices'[c] = last_prices[c]
      ]_vars

\* The update loop has written a price that differs from the one the
\* snapshot took before it; no row of the cycle is printed yet.
C18_Witness ==
    /\ pc = "render"
    /\ idx = 1
    /\ rows = <<>>
    /\ BatchComplete(futures)
    /\ \E c \in DOMAIN last_prices :
          /\ last_prices_for_display[c] # {}
          /\ last_prices_for_display[c] # {last_prices[c]}

\* C19: from a payload of at least 4 and fewer than 32 fields the parser
\* returns the reduced record: the code, the payload's price and pre_close,
\* no high and no low, and a suspended flag that is true exactly when
\* (price # 0 and price = pre_close) or (price = 0 and pre_close # 0); from
\* a payload of fewer than 4 fields it returns no record.
C19_DegradedPath ==
    /\ Parsed(4, 31) =>
          LET q == call.resp
          IN  /\ ret # None
              /\ ret.kind = "degraded"
              /\ DOMAIN ret = {"kind", "code", "price", "pre_close", "is_suspended"}
              /\ ret.code = call.stock_code
              /\ ret.price = q.price
              /\ ret.pre_close = q.pre_close
              /\ ret.is_suspended <=>
                   \/ (q.price # 0 /\ q.price = q.pre_close)
                   \/ (q.price = 0 /\ q.pre_close # 0)
    /\ Parsed(0, 3) => ret = None

\* A reduced record made from 31 fields, suspended because its nonzero
\* price equals its pre_close although high, low and volume say otherwise.
C19_Witness ==
    /\ Parsed(31, 31)
    /\ ret.kind = "degraded"
    /\ call.resp.price # 0
    /\ call.resp.price = call.resp.pre_close
    /\ call.resp.volume > 0
    /\ call.resp.high # call.resp.low
    /\ ret.is_suspended

\* C20: every row of the cycle, and the profit and cost taken from it, is
\* computed with the quantity of the list entry it is printed for, also
\* when a code stands in several entries with different quantities, and
\* whatever the order in which the fetches were collected.
C20_OwnQuantity ==
    (RowsOfCycle /\ Len(stock_profits) >= Len(rows)) =>
        \A k \in 1..Len(rows) :
            /\ stock_profits[k].holding_quantity = stock_profits[k].stock_item.quantity
            /\ rows[k].quantity = stock_profits[k].stock_item.quantity

\* C21: every price held in last_prices is > 0; once the update loop of a
\* cycle is over, a quote with a price > 0, suspended or not and from either
\* parse path, has that price as its effective price and as the value of
\* its code in last_prices; and every data row on the screen made from such
\* a quote shows, as its price, the value last_prices holds for its code.
\* So the price a later cycle's trend is compared with is one that was on
\* the screen.
C21_WrittenIsDisplayed ==
    /\ \A c \in DOMAIN last_prices : last_prices[c] > 0
    /\ (AfterUpdate =>
          \A c \in ListCodes :
              LET q == stock_data[c].info
              IN  (q # None /\ q.price > 0) =>
                    /\ EffectivePrice(q) = q.price
                    /\ DictGet(last_prices, c) = {EffectivePrice(q)})
    /\ ((RowsOfCycle /\ Len(stock_profits) >= Len(rows)) =>
          \A k \in 1..Len(rows) :
              (rows[k].kind = "data" /\ stock_profits[k].stock_info.price > 0) =>
                  DictGet(last_prices, rows[k].code) = {rows[k].display_price})

\* A second cycle showing a suspended quote of the reduced path and a traded
\* quote of the full path, each at the price just written for its code, and
\* each compared with a price an earlier cycle wrote.
C21_Witness ==
    /\ pc = "countdown"
    /\ \E k \in 1..Len(rows) :
          /\ rows[k].kind = "data"
          /\ stock_profits[k].stock_info.kind = "degraded"
          /\ stock_profits[k].stock_info.is_suspended
          /\ last_prices[rows[k].code] = rows[k].display_price
          /\ last_prices_for_display[rows[k].code] # {}
    /\ \E k \in 1..Len(rows) :
          /\ rows[k].kind = "data"
          /\ stock_profits[k].stock_info.kind = "full"
          /\ ~stock_profits[k].stock_info.is_suspended
          /\ last_prices[rows[k].code] = rows[k].display_price
          /\ last_prices_for_display[rows[k].code] # {}
          /\ last_prices_for_display[rows[k].code] # {rows[k].display_price}

====
